---- MODULE Spec2Model ----
(***************************************************************************)
(* The valve-network solver (day 16): parse builds the network and runs    *)
(* Valve::calculateDistanceToOtherValves once per valve, part1 searches    *)
(* the activation orders with a worklist, main loops over the input files. *)
(*                                                                         *)
(* The text of a file is not modelled.  A file is [wellFormed, records]:    *)
(* whether parseNumber accepts the flow rate of each of its lines, and the *)
(* records the loop of lines 82-107 then leaves in valves, one per label:  *)
(* a function from the labels defined to [flowRate, connections].  The     *)
(* connection list of a record is kept as the set of labels it names (the  *)
(* relaxation of one neighbour does not depend on the others, and where    *)
(* the order matters, before an out_of_range, every order is covered).     *)
(* The local map prev and the member routes are written or declared but    *)
(* never read, and are left out; so is the throw of line 138, which needs  *)
(* two valves of the map at one address.                                   *)
(***************************************************************************)
EXTENDS Integers, Sequences, FiniteSets, TLC

\* Bounds of the model.
Labels == {"AA", "BB", "CC"}
Rates == {0, 10, 20}
ParseRates == {10}
MainLabels == {"AA", "BB"}
MaxT == 8
MaxFiles == 2

\* The sentinel of line 135.  The code's value is 4294967295, held in a
\* 64-bit size_t; TLC's integers are 32-bit signed, so the model takes the
\* largest value whose successor TLC can still compute.  The code only
\* compares the sentinel and adds 1 to distances: what it relies on is that
\* the sentinel exceeds every hop count and that sentinel + 1 does not wrap.
UINT32_MAX == 2147483646

\* main's time budget.
MainTimeLimit == 30

VARIABLES
    files,      \* argv[1..]: each input file, [wellFormed, records]
    argi,       \* main's loop index i
    out,        \* the "Part 1: n" lines printed on stdout, as the numbers n
    stderr,     \* the "ERROR: ..." lines printed on stderr
    exitCode,   \* main's return value, -1 while running
    pc,         \* where the program is
    error,      \* the exception in flight ("none" when there is none)
    network,    \* parse's valves: label -> [flowRate, connections]
    todo,       \* the valves parse's second loop has still to visit
    src,        \* this, in calculateDistanceToOtherValves
    Q,          \* the frontier Q
    distances,  \* label -> that valve's member distances (label -> size_t)
    timeLimit,  \* part1's timeLimit
    states,     \* part1's worklist
    max,        \* part1's max
    maxState    \* part1's maxState

\* The droplet program (day 18, src/day18.cpp).
VARIABLES
    cubes,                  \* findAirPockets' argument cubes
    negative,               \* findAirPockets' negative
    unvisitedNegativeCubes, \* findAirPockets' unvisitedNegativeCubes
    pc18                    \* where findAirPockets is

\* The sensor program (day 15, src/unnamed/part_000).
VARIABLES
    sensors,    \* getRanges' sensors, each [location, strength]
    row,        \* getRanges' y
    minX,       \* getRanges' minX
    maxX,       \* getRanges' maxX
    range,      \* what fromSensor returned for each sensor so far
    ranges,     \* getRanges' vector ranges
    outside,    \* whether an element outside the vector has been read
    pc15        \* where getRanges is

\* The sand program (day 14, src/day14.cpp).
VARIABLES
    rocks,          \* what parse returned (line 119), kept for the properties
    occupiedSpots,  \* main's occupiedSpots
    floor,          \* main's floor
    sandPart1,      \* main's part1
    sandPart2,      \* main's part2
    floorHit,       \* main's floorHit
    grain,          \* the grain of the last iteration, at rest
    pc14            \* where main is

\* The monkey program (day 11, src/day11.cpp).
VARIABLES
    monkeys,    \* monkeyBusiness' monkeys, indexed from 0
    modulo,     \* monkeyBusiness' modulo
    relaxing,   \* monkeyBusiness' relaxing
    iterations, \* monkeyBusiness' iterations
    round,      \* monkeyBusiness' i
    turn,       \* the index in monkeys of the monkey whose turn is next
    before,     \* the last call of runTurn: the monkey called and monkeys as the
                \* call found it, kept for the properties
    pc11        \* where monkeyBusiness is

\* The packet program (day 13, src/day13.cpp).
VARIABLES
    packetFirst,    \* the left operand of a comparison
    packetSecond,   \* the right operand
    result,         \* packetFirst <=> packetSecond, "none" before it is taken
    reversed,       \* packetSecond <=> packetFirst, "none" before it is taken
    pc13            \* where the comparison is

day16Vars == <<files, argi, out, stderr, exitCode, pc, error, network, todo, src, Q,
               distances, timeLimit, states, max, maxState>>
day18Vars == <<cubes, negative, unvisitedNegativeCubes, pc18>>
day15Vars == <<sensors, row, minX, maxX, range, ranges, outside, pc15>>
day11Vars == <<monkeys, modulo, relaxing, iterations, round, turn, before, pc11>>
day13Vars == <<packetFirst, packetSecond, result, reversed, pc13>>
laterDays == <<day11Vars, day13Vars>>
day14Vars == <<rocks, occupiedSpots, floor, sandPart1, sandPart2, floorHit, grain, pc14>>

vars == <<day16Vars, day18Vars, day15Vars, day14Vars, day11Vars, day13Vars>>

\* The programs are separate executables: while one runs, the variables of
\* the others keep the values below.
otherDays == <<day18Vars, day15Vars, day14Vars, laterDays>>

Day18Off ==
    /\ cubes = {}
    /\ negative = {}
    /\ unvisitedNegativeCubes = {}
    /\ pc18 = "off"

Day15Off ==
    /\ sensors = <<>>
    /\ row = 0
    /\ minX = 0
    /\ maxX = 0
    /\ range = <<>>
    /\ ranges = <<>>
    /\ outside = FALSE
    /\ pc15 = "off"

Day14Off ==
    /\ rocks = {}
    /\ occupiedSpots = {}
    /\ floor = 0
    /\ sandPart1 = 0
    /\ sandPart2 = 0
    /\ floorHit = FALSE
    /\ grain = <<0, 0>>
    /\ pc14 = "off"

Day11Off ==
    /\ monkeys = <<>>
    /\ modulo = 1
    /\ relaxing = FALSE
    /\ iterations = 0
    /\ round = 0
    /\ turn = 0
    /\ before = [monkeys |-> <<>>, monkey |-> -1]
    /\ pc11 = "off"

Day13Off ==
    /\ packetFirst = [array |-> <<>>]
    /\ packetSecond = [array |-> <<>>]
    /\ result = "none"
    /\ reversed = "none"
    /\ pc13 = "off"

LaterDaysOff == Day11Off /\ Day13Off

OtherDaysOff == Day18Off /\ Day15Off /\ Day14Off /\ LaterDaysOff

mainVars == <<files, argi, out, stderr, exitCode>>
calcVars == <<src, Q>>
part1Vars == <<timeLimit, states, max, maxState>>

----------------------------------------------------------------------------
\* Values

EmptyMap == [x \in {} |-> 0]

\* The networks with labels among L and flow rates among R; every record
\* names at least one connection (parse always reads one).
ValveNetworks(L, R) ==
    UNION {[D -> [flowRate : R, connections : (SUBSET L) \ {{}}]] : D \in SUBSET L}

NoDistances(net) == [v \in DOMAIN net |-> EmptyMap]

\* Line 80: valves before any record is read.
EmptyNetwork == [v \in {} |-> [flowRate |-> 0, connections |-> {}]]

----------------------------------------------------------------------------
\* Valve::calculateDistanceToOtherValves

\* A variant of InitialDistances: the entries start at 0, the value a map
\* gives a new key, instead of UINT32_MAX.
InitialDistancesZero(net, this) == [u \in DOMAIN net |-> 0]

\* Lines 134-141: every valve of the network gets UINT32_MAX, this gets 0.
InitialDistances(net, this) ==
    [u \in DOMAIN net |-> IF u = this THEN 0 ELSE UINT32_MAX]

\* Line 144 with DistanceSorter: the elements of Q no other element is
\* nearer than.  Among them min_element takes the lowest address, which the
\* allocator decides: any of them.
MinElements(frontier, d) ==
    {a \in frontier : \A b \in frontier : d[a] <= d[b]}

\* A variant of InfiniteDistance: the test of line 149 is missing.
InfiniteDistanceNever(distance) == FALSE

\* Line 149.
InfiniteDistance(distance) == distance = UINT32_MAX

\* A variant of Alt: the edge is not counted.
AltNoStep(distance) == distance

\* Line 156.
Alt(distance) == distance + 1

\* A variant of Relax: the comparison of line 158 is missing.
RelaxAlways(alt, neighbourDistance) == alt

\* Lines 157-161.
Relax(alt, neighbourDistance) ==
    IF alt < neighbourDistance THEN alt ELSE neighbourDistance

\* Lines 153-163 for the neighbours in S, with Q1 the frontier after the
\* erase of line 146.
RelaxAll(d, Q1, distance, S) ==
    [u \in DOMAIN d |->
        IF u \in S /\ u \in Q1 THEN Relax(Alt(distance), d[u]) ELSE d[u]]

\* A variant of AtThrows: an unknown label is skipped.
AtNeverThrows(net, connections) == FALSE

\* Line 154: network.at(neighbour) throws std::out_of_range at the first
\* connection that names no valve of the network.
AtThrows(net, connections) == ~(connections \subseteq DOMAIN net)

\* The connections the loop of line 153 gets through: all of them, or, when
\* network.at throws, those listed before the one it throws at (any of the
\* others).
Relaxed(net, valve) ==
    LET connections == net[valve].connections
    IN  IF AtThrows(net, connections)
        THEN SUBSET (connections \cap DOMAIN net)
        ELSE {connections}

\* Lines 148-163 for the valve taken from Q, Q1 being Q after the erase of
\* line 146: the exception thrown ("none" when the iteration completes) and
\* the table it leaves.
CalcBody(net, d, Q1, valve, relaxed) ==
    LET distance == d[valve]
    IN  IF InfiniteDistance(distance)
        THEN [threw |-> "infinite distance", distances |-> d]
        ELSE [threw |-> IF AtThrows(net, net[valve].connections)
                        THEN "out_of_range" ELSE "none",
              distances |-> RelaxAll(d, Q1, distance, relaxed)]

----------------------------------------------------------------------------
\* parse

\* Lines 109-110 and 130-141: the loop takes the next valve (the order is
\* the unordered_map's) and enters calculateDistanceToOtherValves.
ParseLoop ==
    /\ pc = "parse"
    /\ \E v \in todo :
        /\ todo' = todo \ {v}
        /\ src' = v
        /\ Q' = DOMAIN network
        /\ distances' = [distances EXCEPT ![v] = InitialDistances(network, v)]
    /\ pc' = "dijkstra"
    /\ UNCHANGED <<otherDays, mainVars, error, network, part1Vars>>

\* Lines 143-164: one iteration of the relaxation loop.
CalcIteration ==
    /\ pc = "dijkstra"
    /\ Q # {}
    /\ \E valve \in MinElements(Q, distances[src]) :
       \E relaxed \in Relaxed(network, valve) :
        LET r == CalcBody(network, distances[src], Q \ {valve}, valve, relaxed)
        IN  /\ Q' = Q \ {valve}
            /\ distances' = [distances EXCEPT ![src] = r.distances]
            /\ error' = r.threw
            /\ pc' = IF r.threw = "none" THEN "dijkstra" ELSE "threw"
    /\ UNCHANGED <<otherDays, mainVars, network, todo, src, part1Vars>>

\* Lines 143 and 165: Q is empty, the call returns to parse's loop.
CalcReturn ==
    /\ pc = "dijkstra"
    /\ Q = {}
    /\ pc' = "parse"
    /\ UNCHANGED <<otherDays, mainVars, error, network, todo, calcVars, distances, part1Vars>>

\* Line 112.
ParseReturn ==
    /\ pc = "parse"
    /\ todo = {}
    /\ pc' = "parsed"
    /\ UNCHANGED <<otherDays, mainVars, error, network, todo, calcVars, distances, part1Vars>>

----------------------------------------------------------------------------
\* The result of calculateDistanceToOtherValves as a function of the
\* network: the loop of lines 143-164 run to its end, taking at each turn
\* one of the minimal elements.  ok is FALSE when the call throws.
RECURSIVE CalcLoop(_, _, _)
CalcLoop(net, d, frontier) ==
    IF frontier = {}
    THEN [ok |-> TRUE, distances |-> d]
    ELSE LET valve == CHOOSE v \in MinElements(frontier, d) : TRUE
             relaxed == CHOOSE S \in Relaxed(net, valve) : TRUE
             r == CalcBody(net, d, frontier \ {valve}, valve, relaxed)
         IN  IF r.threw = "none"
             THEN CalcLoop(net, r.distances, frontier \ {valve})
             ELSE [ok |-> FALSE, distances |-> r.distances]

calculateDistanceToOtherValves(net, this) ==
    CalcLoop(net, InitialDistances(net, this), DOMAIN net)

\* Lines 109-112: parse returns the network when no call throws.
ParseReturns(net) ==
    \A v \in DOMAIN net : calculateDistanceToOtherValves(net, v).ok

ParsedDistances(net) ==
    [v \in DOMAIN net |-> calculateDistanceToOtherValves(net, v).distances]

----------------------------------------------------------------------------
\* State and part1

\* Line 200: State(start, {}, 0).
InitialState == [current |-> "AA", openedValves |-> EmptyMap, elapsedTime |-> 0]

RECURSIVE SumOver(_, _)
SumOver(f, S) ==
    IF S = {} THEN 0
    ELSE LET x == CHOOSE y \in S : TRUE IN f[x] + SumOver(f, S \ {x})

\* A variant of Relieved: the test of line 190 is missing, and the unsigned
\* subtraction wraps for a valve opened after the limit (the wrap of the
\* 64-bit size_t is shown on 16 bits, which TLC's integers can hold).
RelievedWraps(flowRate, openedAt, limit) ==
    flowRate * ((limit - openedAt) % 65536)

\* Lines 190-192: what one opened valve adds.
Relieved(flowRate, openedAt, limit) ==
    IF openedAt >= limit THEN 0 ELSE flowRate * (limit - openedAt)

\* Lines 187-194.
totalPressureRelieved(net, state, limit) ==
    SumOver([v \in DOMAIN state.openedValves |->
                Relieved(net[v].flowRate, state.openedValves[v], limit)],
            DOMAIN state.openedValves)

\* A variant of CanOpen: the test of the flow rate is missing.
CanOpenAnyRate(net, state, target, limit) ==
    /\ target \notin DOMAIN state.openedValves
    /\ state.elapsedTime < limit

\* A variant of CanOpen: the test that the target is not yet open is missing.
CanOpenAgain(net, state, target, limit) ==
    /\ net[target].flowRate > 0
    /\ state.elapsedTime < limit

\* A variant of CanOpen: the test of the elapsed time is missing.
CanOpenAnyTime(net, state, target, limit) ==
    /\ target \notin DOMAIN state.openedValves
    /\ net[target].flowRate > 0

\* Line 213.
CanOpen(net, state, target, limit) ==
    /\ target \notin DOMAIN state.openedValves
    /\ net[target].flowRate > 0
    /\ state.elapsedTime < limit

\* A variant of OpenedAt: the time of departure is recorded.
OpenedAtDeparture(elapsedTime, distance) == elapsedTime

\* A variant of OpenedAt: the minute spent opening the valve is not counted.
OpenedAtNoMinute(elapsedTime, distance) == elapsedTime + distance

\* Lines 217-218: the time the target is opened at.
OpenedAt(elapsedTime, distance) == elapsedTime + distance + 1

\* A variant of NextState: the valves opened so far are not copied (line
\* 216 starts from an empty map).
NextStateForgets(state, target, distance) ==
    LET t == OpenedAt(state.elapsedTime, distance)
    IN  [current |-> target,
         openedValves |-> [v \in {target} |-> t],
         elapsedTime |-> t]

\* Lines 216-218.
NextState(state, target, distance) ==
    LET t == OpenedAt(state.elapsedTime, distance)
    IN  [current |-> target,
         openedValves |-> [v \in DOMAIN state.openedValves \cup {target} |->
                             IF v = target THEN t ELSE state.openedValves[v]],
         elapsedTime |-> t]

\* The targets line 213 lets through, among the keys of the current valve's
\* distances.
Targets(net, dist, state, limit) ==
    {target \in DOMAIN dist[state.current] : CanOpen(net, state, target, limit)}

\* The orders the loop of line 211 may visit a set of targets in.
Orders(S) ==
    {o \in [1..Cardinality(S) -> S] : \A i, j \in 1..Cardinality(S) : o[i] = o[j] => i = j}

\* A variant of Better: a tie replaces the best state too.
BetterOrEqual(finalPressure, best) == finalPressure >= best

\* A variant of Better: the comparison of line 226 is missing.
BetterAlways(finalPressure, best) == TRUE

\* Line 226.
Better(finalPressure, best) == finalPressure > best

\* Lines 206-230: one iteration of the worklist loop on w = [states, max,
\* maxState], the loop of line 211 visiting the targets in `order`.
Part1Body(net, dist, limit, w, order) ==
    LET state == Head(w.states)
        added == [i \in 1..Len(order) |->
                    NextState(state, order[i], dist[state.current][order[i]])]
        finalPressure == totalPressureRelieved(net, state, limit)
    IN  IF Len(order) > 0
        THEN [w EXCEPT !.states = Tail(w.states) \o added]
        ELSE IF Better(finalPressure, w.max)
        THEN [states |-> Tail(w.states), max |-> finalPressure, maxState |-> state]
        ELSE [w EXCEPT !.states = Tail(w.states)]

\* Lines 198-202.
Part1Entry == [states |-> <<InitialState>>, max |-> 0, maxState |-> InitialState]

\* Lines 198-202 when the network holds "AA", as an action on the state.
Part1Enter(limit) ==
    /\ timeLimit' = limit
    /\ states' = Part1Entry.states
    /\ max' = Part1Entry.max
    /\ maxState' = Part1Entry.maxState

\* Lines 204-231: one iteration.
Part1Iteration ==
    /\ pc = "part1"
    /\ states # <<>>
    /\ \E order \in Orders(Targets(network, distances, Head(states), timeLimit)) :
        LET w == Part1Body(network, distances, timeLimit,
                           [states |-> states, max |-> max, maxState |-> maxState], order)
        IN  /\ states' = w.states
            /\ max' = w.max
            /\ maxState' = w.maxState
    /\ UNCHANGED <<otherDays, mainVars, pc, error, network, todo, calcVars, distances, timeLimit>>

\* Lines 204 and 233-240: the worklist is empty, part1 returns max.
Part1Return ==
    /\ pc = "part1"
    /\ states = <<>>
    /\ pc' = "returned"
    /\ UNCHANGED <<otherDays, mainVars, error, network, todo, calcVars, distances, part1Vars>>

\* part1 as a function: the loop run to its end, the loop of line 211
\* visiting the targets in one fixed order.
FixedOrder(S) == CHOOSE o \in Orders(S) : TRUE

RECURSIVE Part1Loop(_, _, _, _)
Part1Loop(net, dist, limit, w) ==
    IF w.states = <<>>
    THEN w
    ELSE Part1Loop(net, dist, limit,
            Part1Body(net, dist, limit, w,
                      FixedOrder(Targets(net, dist, Head(w.states), limit))))

\* Line 240: the value returned.
part1(net, dist, limit) == Part1Loop(net, dist, limit, Part1Entry).max

----------------------------------------------------------------------------
\* main

\* A file of the records net, every line of which parseNumber accepts.
File(net) == [wellFormed |-> TRUE, records |-> net]

\* A file with a line whose flow rate parseNumber rejects (lines 51-53).
Malformed == [wellFormed |-> FALSE, records |-> EmptyNetwork]

\* Lines 245-247 and 80-108: the next file is opened and parse reads its
\* records into valves, or parseNumber throws.
MainLoop ==
    /\ pc = "main"
    /\ argi <= Len(files)
    /\ IF files[argi].wellFormed
       THEN /\ network' = files[argi].records
            /\ todo' = DOMAIN files[argi].records
            /\ distances' = NoDistances(files[argi].records)
            /\ pc' = "parse"
            /\ error' = error
       ELSE /\ pc' = "threw"
            /\ error' = "Failed to parse string as number"
            /\ UNCHANGED <<network, todo, distances>>
    /\ UNCHANGED <<otherDays, mainVars, calcVars, part1Vars>>

\* Line 248, lines 198-202: part1(network, 30); network.at("AA") throws
\* when the network has no valve AA.
MainPart1 ==
    /\ pc = "parsed"
    /\ IF "AA" \in DOMAIN network
       THEN /\ Part1Enter(MainTimeLimit)
            /\ pc' = "part1"
            /\ error' = error
       ELSE /\ pc' = "threw"
            /\ error' = "out_of_range"
            /\ UNCHANGED part1Vars
    /\ UNCHANGED <<otherDays, mainVars, network, todo, calcVars, distances>>

\* Line 248: the result is printed, then i++.
MainPrint ==
    /\ pc = "returned"
    /\ out' = Append(out, max)
    /\ argi' = argi + 1
    /\ pc' = "main"
    /\ UNCHANGED <<otherDays, files, stderr, exitCode, error, network, todo, calcVars, distances, part1Vars>>

\* Line 250.
MainReturn ==
    /\ pc = "main"
    /\ argi > Len(files)
    /\ exitCode' = 0
    /\ pc' = "exited"
    /\ UNCHANGED <<otherDays, files, argi, out, stderr, error, network, todo, calcVars, distances, part1Vars>>

\* A variant of MainCatch: the handler is inside the loop, which goes on
\* with the next file.
MainCatchContinue ==
    /\ pc = "threw"
    /\ stderr' = Append(stderr, error)
    /\ argi' = argi + 1
    /\ pc' = "main"
    /\ UNCHANGED <<otherDays, files, out, exitCode, error, network, todo, calcVars, distances, part1Vars>>

\* Lines 251-254: the function-try-block's handler.
MainCatch ==
    /\ pc = "threw"
    /\ stderr' = Append(stderr, error)
    /\ exitCode' = 1
    /\ pc' = "exited"
    /\ UNCHANGED <<otherDays, files, argi, out, error, network, todo, calcVars, distances, part1Vars>>

----------------------------------------------------------------------------
\* Specifications

Idle ==
    /\ error = "none"
    /\ src = "AA"
    /\ Q = {}
    /\ timeLimit = 0
    /\ states = <<>>
    /\ max = 0
    /\ maxState = InitialState

\* The whole program, on up to MaxFiles files over the labels MainLabels.
MainFiles == {File(net) : net \in ValveNetworks(MainLabels, ParseRates)} \cup {Malformed}

Init ==
    /\ files \in UNION {[1..n -> MainFiles] : n \in 0..MaxFiles}
    /\ argi = 1
    /\ out = <<>>
    /\ stderr = <<>>
    /\ exitCode = -1
    /\ pc = "main"
    /\ network = EmptyNetwork
    /\ todo = {}
    /\ distances = EmptyMap
    /\ Idle
    /\ OtherDaysOff

Next ==
    \/ MainLoop
    \/ ParseLoop
    \/ CalcIteration
    \/ CalcReturn
    \/ ParseReturn
    \/ MainPart1
    \/ Part1Iteration
    \/ Part1Return
    \/ MainPrint
    \/ MainReturn
    \/ MainCatch

Spec == Init /\ [][Next]_vars

\* parse alone, on every network over Labels: the state is the one main's
\* loop leaves at line 247 with the records read.
ParseInputs == ValveNetworks(Labels, ParseRates)

ParseInit ==
    /\ \E net \in ParseInputs :
        /\ files = <<File(net)>>
        /\ network = net
        /\ todo = DOMAIN net
        /\ distances = NoDistances(net)
    /\ argi = 1
    /\ out = <<>>
    /\ stderr = <<>>
    /\ exitCode = -1
    /\ pc = "parse"
    /\ Idle
    /\ OtherDaysOff

ParseNext ==
    \/ ParseLoop
    \/ CalcIteration
    \/ CalcReturn
    \/ ParseReturn

ParseSpec == ParseInit /\ [][ParseNext]_vars

\* part1 alone, on every network over Labels that parse returns and that
\* holds AA, and every time limit up to MaxT: the state is the one line 202
\* leaves.
NoSelfLoop(net) == \A v \in DOMAIN net : v \notin net[v].connections

Part1Inputs ==
    {net \in ValveNetworks(Labels, Rates) :
        "AA" \in DOMAIN net /\ NoSelfLoop(net) /\ ParseReturns(net)}

Part1Init ==
    /\ \E net \in Part1Inputs :
        /\ files = <<File(net)>>
        /\ network = net
        /\ distances = ParsedDistances(net)
    /\ \E limit \in 0..MaxT : timeLimit = limit
    /\ states = Part1Entry.states
    /\ max = Part1Entry.max
    /\ maxState = Part1Entry.maxState
    /\ argi = 1
    /\ out = <<>>
    /\ stderr = <<>>
    /\ exitCode = -1
    /\ pc = "part1"
    /\ OtherDaysOff
    /\ todo = {}
    /\ error = "none"
    /\ src = "AA"
    /\ Q = {}

Part1Next ==
    \/ Part1Iteration
    \/ Part1Return

Part1Spec == Part1Init /\ [][Part1Next]_vars

\* part1 alone, with the loop of lines 204-231 and the return always taken
\* when they can be: the program is sequential and runs on.  Whether the
\* loop ends depends on which flow rates are 0, not on the others' values:
\* one nonzero rate is kept.
TerminationRates == {0, 10}

Part1FairInit ==
    /\ Part1Init
    /\ \A v \in DOMAIN network : network[v].flowRate \in TerminationRates

Part1FairSpec == Part1FairInit /\ [][Part1Next]_vars /\ WF_vars(Part1Next)

----------------------------------------------------------------------------
\* What the properties below are stated with

\* The valves within k edge traversals of s, following the connection lists.
RECURSIVE Within(_, _, _)
Within(net, s, k) ==
    IF k = 0 THEN {s}
    ELSE LET near == Within(net, s, k - 1)
         IN  near \cup {u \in DOMAIN net : \E w \in near : u \in net[w].connections}

Reachable(net, s) == Within(net, s, Cardinality(DOMAIN net))

Unreachable(net, s) == DOMAIN net \ Reachable(net, s)

Connected(net) == \A s \in DOMAIN net : Unreachable(net, s) = {}

\* The least number of edge traversals from s to v, v reachable from s.
HopCount(net, s, v) ==
    CHOOSE k \in 0..Cardinality(DOMAIN net) :
        /\ v \in Within(net, s, k)
        /\ k > 0 => v \notin Within(net, s, k - 1)

Bidirectional(net) ==
    \A a, b \in DOMAIN net : (b \in net[a].connections) <=> (a \in net[b].connections)

HasUndefinedNeighbour(net) ==
    \E v \in DOMAIN net : ~(net[v].connections \subseteq DOMAIN net)

\* The valves whose call of calculateDistanceToOtherValves has begun, and
\* those whose call has returned (in parse: before main goes on).
Begun(v) == v \in DOMAIN network /\ v \notin todo

Returned(v) == Begun(v) /\ ~(v = src /\ pc \in {"dijkstra", "threw"})

\* The sequences of distinct valves with a nonzero flow rate.
Activations(net) ==
    UNION {Orders(S) : S \in SUBSET {v \in DOMAIN net : net[v].flowRate > 0}}

\* The time the k-th valve of seq is activated at, starting from AA at 0.
RECURSIVE ActivationTime(_, _, _)
ActivationTime(dist, seq, k) ==
    IF k = 0 THEN 0
    ELSE ActivationTime(dist, seq, k - 1)
         + dist[IF k = 1 THEN "AA" ELSE seq[k - 1]][seq[k]] + 1

InTime(dist, seq, T) == \A k \in 1..Len(seq) : ActivationTime(dist, seq, k) <= T

Reward(net, dist, seq, T) ==
    SumOver([k \in 1..Len(seq) |->
                net[seq[k]].flowRate * (T - ActivationTime(dist, seq, k))],
            1..Len(seq))

BestReward(net, dist, T) ==
    LET rewards == {Reward(net, dist, seq, T) :
                        seq \in {a \in Activations(net) : InTime(dist, a, T)}}
    IN  CHOOSE r \in rewards : \A q \in rewards : q <= r

\* The network A(0)-B(10)-C(20) with all pairwise distances 1.
Triangle ==
    [v \in Labels |->
        [flowRate |-> IF v = "AA" THEN 0 ELSE IF v = "BB" THEN 10 ELSE 20,
         connections |-> Labels \ {v}]]

\* The state a worklist state was made from had this elapsed time: the
\* latest activation before that of the current valve.
ParentElapsed(state) ==
    LET earlier == {state.openedValves[v] :
                        v \in DOMAIN state.openedValves \ {state.current}}
    IN  IF earlier = {} THEN 0 ELSE CHOOSE t \in earlier : \A q \in earlier : q <= t

\* The files parse and part1 both get through.
FileOk(file) ==
    /\ file.wellFormed
    /\ ParseReturns(file.records)
    /\ "AA" \in DOMAIN file.records

----------------------------------------------------------------------------
\* C1: when part1 returns, max is the greatest reward of any sequence of
\* distinct valves with a nonzero flow rate, activated in order from AA, each
\* at the previous time + distance + 1, no activation later than the time
\* limit, a valve activated at t bringing flowRate * (limit - t).
Thm_C1 ==
    pc = "returned" => max = BestReward(network, distances, timeLimit)

\* C1: the search has returned 40 for A(0)-B(10)-C(20) and the limit 4.
Wit_C1 ==
    /\ pc = "returned"
    /\ network = Triangle
    /\ timeLimit = 4
    /\ max = 40

\* C2 as stated: no state of the worklist has an elapsed time over the limit.
Orig_C2 ==
    \A k \in 1..Len(states) : states[k].elapsedTime <= timeLimit

\* C2 as amended: every state of the worklist but the initial one was made
\* from a state whose elapsed time was below the limit; its own elapsed time
\* is not tested and is over the limit by at most the distance travelled.
Thm_C2 ==
    pc = "part1" =>
        \A k \in 1..Len(states) :
            LET state == states[k]
            IN  state.openedValves # EmptyMap =>
                    /\ ParentElapsed(state) < timeLimit
                    /\ state.elapsedTime <= timeLimit + distances[
                            IF DOMAIN state.openedValves = {state.current}
                            THEN "AA"
                            ELSE CHOOSE v \in DOMAIN state.openedValves :
                                    state.openedValves[v] = ParentElapsed(state)
                        ][state.current]

\* C2: a state whose elapsed time is over the limit is on the worklist.
Wit_C2 ==
    /\ pc = "part1"
    /\ \E k \in 1..Len(states) : states[k].elapsedTime > timeLimit

\* C3: once parse has returned a connected network, every table holds for
\* every valve the least number of edge traversals from the table's owner.
Thm_C3 ==
    (pc = "parsed" /\ Connected(network)) =>
        \A s, v \in DOMAIN network : distances[s][v] = HopCount(network, s, v)

\* C3: parse has returned a network of three valves with a distance of 2.
Wit_C3 ==
    /\ pc = "parsed"
    /\ Connected(network)
    /\ \E s, v \in DOMAIN network : distances[s][v] = 2 /\ HopCount(network, s, v) = 2

\* C4 as stated: a call for a valve that does not reach every valve ends by
\* returning, and the table then has entries for the reachable valves only.
Orig_C4 ==
    \A v \in DOMAIN network :
        (Unreachable(network, v) # {} /\ Begun(v) /\ (v = src => pc # "dijkstra")) =>
            /\ Returned(v)
            /\ DOMAIN distances[v] = Reachable(network, v)

\* C4 as amended: the call for a valve that does not reach every valve never
\* returns (it ends in an exception), and from its start the table holds an
\* entry for every valve of the network, UINT32_MAX for the unreachable ones.
Thm_C4 ==
    \A v \in DOMAIN network :
        Unreachable(network, v) # {} =>
            /\ ~Returned(v)
            /\ Begun(v) =>
                /\ DOMAIN distances[v] = DOMAIN network
                /\ \A u \in Unreachable(network, v) : distances[v][u] = UINT32_MAX

\* C4: the call has thrown "infinite distance" on taking an unreachable valve
\* from Q, every reachable valve having been processed.
Wit_C4 ==
    /\ pc = "threw"
    /\ error = "infinite distance"
    /\ Unreachable(network, src) # {}
    /\ Reachable(network, src) \cap Q = {}
    /\ \A u \in DOMAIN network : ~AtThrows(network, network[u].connections)

\* C5 as stated: when main has ended on several files, every file that
\* parse and part1 get through has its result printed, whatever happened to
\* the files before it.
Orig_C5 ==
    (pc = "exited" /\ Len(files) > 1) =>
        Len(out) = Cardinality({k \in 1..Len(files) : FileOk(files[k])})

\* C5 as amended: once an error is reported main has ended with status 1 at
\* the file that failed: the results printed are those of the files before
\* it, and no later file is parsed or gets a result.
Thm_C5 ==
    /\ stderr # <<>> =>
        /\ pc = "exited"
        /\ exitCode = 1
        /\ argi <= Len(files)
        /\ ~FileOk(files[argi])
    /\ Len(out) = argi - 1
    /\ \A k \in 1..Len(files) : (k < argi) => FileOk(files[k])
    /\ pc = "threw" => ~FileOk(files[argi])

\* C5: main has ended on the error of a file that a valid file follows.
Wit_C5 ==
    /\ pc = "exited"
    /\ exitCode = 1
    /\ stderr # <<>>
    /\ argi < Len(files)
    /\ FileOk(files[argi + 1])
    /\ Len(out) = argi - 1

\* C6: while parse works on records one of which names a label that no
\* record defines, it never returns the network (so part1 never runs on it):
\* it goes on until it stops in an exception.
Thm_C6 ==
    HasUndefinedNeighbour(network) =>
        /\ pc \notin {"parsed", "part1", "returned"}
        /\ pc # "threw" => ENABLED (ParseLoop \/ CalcIteration \/ CalcReturn)
        /\ pc = "threw" => error # "none"

\* C6: parse has ended in out_of_range at the connections of a valve other
\* than the one the call was made for.
Wit_C6 ==
    /\ HasUndefinedNeighbour(network)
    /\ pc = "threw"
    /\ error = "out_of_range"
    /\ ~AtThrows(network, network[src].connections)
    /\ Cardinality(DOMAIN network \ Q) >= 2

\* C7: a step of the relaxation loop that takes from Q a valve whose
\* distance is UINT32_MAX ends in the "infinite distance" exception; and a
\* call that goes on or has returned has processed no valve with an unset
\* distance.
Thm_C7 ==
    /\ [][(pc = "dijkstra" /\ \E v \in Q \ Q' : distances[src][v] = UINT32_MAX)
            => (pc' = "threw" /\ error' = "infinite distance")]_vars
    /\ [](\A v \in DOMAIN network :
            (Begun(v) /\ ~(v = src /\ pc = "threw")) =>
                \A u \in DOMAIN network \ (IF v = src THEN Q ELSE {}) :
                    distances[v][u] # UINT32_MAX)

\* C7: the loop has taken a valve with an unset distance from Q, other
\* valves still being in Q, and has thrown.
Wit_C7 ==
    /\ pc = "threw"
    /\ error = "infinite distance"
    /\ Q # {}
    /\ \E v \in DOMAIN network \ Q : distances[src][v] = UINT32_MAX

\* C8: when part1 returns for the limit T2, no smaller limit T1 gives the
\* same network a greater result.
Thm_C8 ==
    pc = "returned" =>
        \A T1 \in 0..timeLimit : part1(network, distances, T1) <= max

\* C8: part1 has returned more than it returns, above 0, for a smaller limit.
Wit_C8 ==
    /\ pc = "returned"
    /\ \E T1 \in 0..timeLimit :
        /\ part1(network, distances, T1) > 0
        /\ part1(network, distances, T1) < max

\* C9: whatever the orders the loop of line 211 visited the targets in, the
\* value part1 returns is the one a run with one fixed order returns.
Thm_C9 ==
    pc = "returned" => max = part1(network, distances, timeLimit)

\* C9: part1 has returned the value of the fixed-order run, above 0, with
\* another winning state.
Wit_C9 ==
    /\ pc = "returned"
    /\ max > 0
    /\ max = part1(network, distances, timeLimit)
    /\ maxState # Part1Loop(network, distances, timeLimit, Part1Entry).maxState

\* C10: once parse has returned a network whose connection lists are
\* bidirectional, the distance from a to b is the distance from b to a.
Thm_C10 ==
    (pc = "parsed" /\ Bidirectional(network)) =>
        \A a, b \in DOMAIN network : distances[a][b] = distances[b][a]

\* C10: parse has returned a bidirectional network with a distance of 2.
Wit_C10 ==
    /\ pc = "parsed"
    /\ Bidirectional(network)
    /\ \E a, b \in DOMAIN network : distances[a][b] = 2 /\ distances[b][a] = 2

\* The valves opened before the limit T bring flowRate * (T - time each);
\* summed one valve at a time, in the order of the labels' set.
RECURSIVE InTimeRelief(_, _, _, _)
InTimeRelief(net, opened, T, S) ==
    IF S = {} THEN 0
    ELSE LET v == CHOOSE x \in S : TRUE
         IN  (IF opened[v] < T THEN net[v].flowRate * (T - opened[v]) ELSE 0)
             + InTimeRelief(net, opened, T, S \ {v})

\* C11: when the limit is below distance(AA, X) + 1 for every valve X with a
\* nonzero flow rate, part1 returns 0.
Thm_C11 ==
    (pc = "returned"
        /\ \A X \in DOMAIN network :
            network[X].flowRate > 0 => timeLimit < distances["AA"][X] + 1)
    => max = 0

\* C11: part1 has returned 0 for a limit above 0 that is too small for every
\* valve with a nonzero flow rate, of which there are two.
Wit_C11 ==
    /\ pc = "returned"
    /\ timeLimit > 0
    /\ Cardinality({X \in DOMAIN network : network[X].flowRate > 0}) >= 2
    /\ \A X \in DOMAIN network :
        network[X].flowRate > 0 => timeLimit < distances["AA"][X] + 1
    /\ max = 0

\* C12: for every state the worklist loop takes (each state of the worklist
\* comes to its front) and every limit T, what totalPressureRelieved gives
\* is the sum, over the valves opened before T,
\* of flowRate * (T - time): a valve opened at or after T adds 0, and the
\* sum is never above what the valves would bring if all were opened at 0.
Thm_C12 ==
    states # <<>> => \A T \in 0..MaxT :
        LET opened == Head(states).openedValves
            total == totalPressureRelieved(network, Head(states), T)
        IN  /\ total = InTimeRelief(network, opened, T, DOMAIN opened)
            /\ (\A v \in DOMAIN opened : opened[v] >= T) => total = 0
            /\ total >= 0
            /\ total <= InTimeRelief(network, [v \in DOMAIN opened |-> 0], T, DOMAIN opened)

\* C12: a state of the worklist has one valve opened before a limit T, which
\* counts, and one opened after it, which adds 0.
Wit_C12 ==
    \E k \in 1..Len(states) : \E T \in 1..MaxT :
        LET opened == states[k].openedValves
        IN  /\ \E v \in DOMAIN opened : opened[v] < T /\ network[v].flowRate > 0
            /\ \E v \in DOMAIN opened : opened[v] > T /\ network[v].flowRate > 0
            /\ totalPressureRelieved(network, states[k], T) > 0

\* C13: a state appended for target X from state s has the elapsed time
\* s.elapsedTime + distance(s.current, X) + 1, records it as the time X was
\* opened at, and keeps the times of the valves s had opened; and no state
\* of the worklist has a valve opened later than its elapsed time.
Thm_C13 ==
    /\ [][(pc = "part1" /\ states # <<>>) =>
            \A i \in Len(states)..Len(states') :
                LET s == Head(states)
                    n == states'[i]
                IN  /\ n.elapsedTime
                        = s.elapsedTime + distances[s.current][n.current] + 1
                    /\ DOMAIN n.openedValves = DOMAIN s.openedValves \cup {n.current}
                    /\ n.openedValves[n.current] = n.elapsedTime
                    /\ \A v \in DOMAIN s.openedValves :
                        v # n.current => n.openedValves[v] = s.openedValves[v]]_vars
    /\ [](\A k \in 1..Len(states) : \A v \in DOMAIN states[k].openedValves :
            states[k].openedValves[v] <= states[k].elapsedTime)

\* C13: a state with two opened valves, opened at different times, is on
\* the worklist.
Wit_C13 ==
    \E k \in 1..Len(states) : \E u, v \in DOMAIN states[k].openedValves :
        /\ states[k].openedValves[u] < states[k].openedValves[v]
        /\ states[k].openedValves[v] = states[k].elapsedTime

\* C14: in every state of the worklist every opened valve has a nonzero flow
\* rate, and the current valve is opened unless the state is the initial
\* one; a step appends states only for targets its state had not opened.
Thm_C14 ==
    /\ [](\A k \in 1..Len(states) :
            /\ \A v \in DOMAIN states[k].openedValves : network[v].flowRate > 0
            /\ states[k] # InitialState =>
                states[k].current \in DOMAIN states[k].openedValves)
    /\ [][(pc = "part1" /\ states # <<>>) =>
            \A i \in Len(states)..Len(states') :
                /\ states'[i].current \notin DOMAIN Head(states).openedValves
                /\ Cardinality(DOMAIN states'[i].openedValves)
                    = Cardinality(DOMAIN Head(states).openedValves) + 1]_vars

\* C14: a state that has opened two valves is on the worklist of a network
\* with a valve whose flow rate is 0.
Wit_C14 ==
    /\ \E v \in DOMAIN network : network[v].flowRate = 0
    /\ \E k \in 1..Len(states) : Cardinality(DOMAIN states[k].openedValves) = 2

\* C15: the worklist becomes empty and part1 returns; every state a step
\* appends has a greater elapsed time and one more opened valve than the
\* state it was made from.
Thm_C15 ==
    /\ <>(pc = "returned" /\ states = <<>>)
    /\ [][(pc = "part1" /\ states # <<>>) =>
            \A i \in Len(states)..Len(states') :
                /\ states'[i].elapsedTime > Head(states).elapsedTime
                /\ Cardinality(DOMAIN states'[i].openedValves)
                    > Cardinality(DOMAIN Head(states).openedValves)]_vars

\* C15: part1 has returned after states with three opened valves were
\* expanded (the best state has three).
Wit_C15 ==
    /\ pc = "returned"
    /\ states = <<>>
    /\ Cardinality(DOMAIN maxState.openedValves) = 3

\* C16: max or maxState change only in a step whose state gets no successor
\* and relieves more than max, and they become that pressure and that
\* state; max is always what maxState relieves within the limit.
Thm_C16 ==
    /\ [][(max' # max \/ maxState' # maxState) =>
            /\ pc = "part1" /\ states # <<>>
            /\ Targets(network, distances, Head(states), timeLimit) = {}
            /\ states' = Tail(states)
            /\ InTimeRelief(network, Head(states).openedValves, timeLimit,
                            DOMAIN Head(states).openedValves) > max
            /\ max' = InTimeRelief(network, Head(states).openedValves, timeLimit,
                                   DOMAIN Head(states).openedValves)
            /\ maxState' = Head(states)]_vars
    /\ [](max = InTimeRelief(network, maxState.openedValves, timeLimit,
                             DOMAIN maxState.openedValves))

\* C16: part1 has returned a maximum above 0 that its maxState relieves.
Wit_C16 ==
    /\ pc = "returned"
    /\ max > 0
    /\ maxState # InitialState
    /\ max = InTimeRelief(network, maxState.openedValves, timeLimit,
                          DOMAIN maxState.openedValves)

----------------------------------------------------------------------------
(***************************************************************************)
(* The droplet program (day 18): findAirPockets, src/day18.cpp 110-168.    *)
(* A Cube is [x, y, z], three uint32_t.                                    *)
(***************************************************************************)

\* Bounds: the droplets are the full box over Side with up to MaxHoles
\* cells taken out, and the empty droplet.
Side == 0..2
MaxHoles == 2

\* The valve program is not running.
Day16Off ==
    /\ files = <<>>
    /\ argi = 1
    /\ out = <<>>
    /\ stderr = <<>>
    /\ exitCode = -1
    /\ pc = "off"
    /\ network = EmptyNetwork
    /\ todo = {}
    /\ distances = EmptyMap
    /\ Idle

FullBox == [x : Side, y : Side, z : Side]

RECURSIVE HoleSets(_)
HoleSets(n) ==
    IF n = 0 THEN {{}}
    ELSE LET fewer == HoleSets(n - 1)
         IN  fewer \cup {h \cup {c} : h \in fewer, c \in FullBox}

Droplets == {FullBox \ h : h \in HoleSets(MaxHoles)} \cup {{}}

\* Lines 39-49: a < b in Cube's ordering.
CubeLess(a, b) ==
    \/ a.x < b.x
    \/ a.x = b.x /\ a.y < b.y
    \/ a.x = b.x /\ a.y = b.y /\ a.z < b.z

\* Lines 112-113: min, the fold of std::min from UINT32_MAX.
BoxMin(cs) ==
    LET Least(S) == IF S = {} THEN UINT32_MAX
                    ELSE CHOOSE m \in S : \A n \in S : m <= n
    IN  [x |-> Least({c.x : c \in cs}),
         y |-> Least({c.y : c \in cs}),
         z |-> Least({c.z : c \in cs})]

\* Lines 114-115: max, the fold of std::max from 0.
BoxMax(cs) ==
    LET Greatest(S) == IF S = {} THEN 0
                       ELSE CHOOSE m \in S : \A n \in S : m >= n
    IN  [x |-> Greatest({c.x : c \in cs}),
         y |-> Greatest({c.y : c \in cs}),
         z |-> Greatest({c.z : c \in cs})]

\* Lines 118-127: negative as first built.
Negative(cs) ==
    LET lo == BoxMin(cs)
        hi == BoxMax(cs)
    IN  {c \in [x : lo.x..hi.x, y : lo.y..hi.y, z : lo.z..hi.z] : c \notin cs}

\* Lines 132-137: the cubes the xyPlane callback inserts.
xyPlaneSeeds(cs) ==
    LET lo == BoxMin(cs)
        hi == BoxMax(cs)
    IN  {c \in Negative(cs) : c.z = lo.z \/ c.z = hi.z}

\* Lines 138-143: the cubes the xzPlane callback inserts.
xzPlaneSeeds(cs) ==
    LET lo == BoxMin(cs)
        hi == BoxMax(cs)
    IN  {c \in Negative(cs) : c.y = lo.y \/ c.y = hi.y}

\* Lines 144-149: the cubes the yzPlane callback inserts; minCube and
\* maxCube are both Cube{max.x, y, z}.
yzPlaneSeeds(cs) ==
    LET hi == BoxMax(cs)
    IN  {c \in Negative(cs) : c.x = hi.x \/ c.x = hi.x}

\* x - 1 on a uint32_t (lines 160, 162, 164): 0 - 1 is 4294967295.
Dec(n) == IF n = 0 THEN UINT32_MAX ELSE n - 1

\* Lines 160-165: the six cubes tested, in the code's order.
Neighbours(c) ==
    {[c EXCEPT !.x = Dec(c.x)], [c EXCEPT !.x = c.x + 1],
     [c EXCEPT !.y = Dec(c.y)], [c EXCEPT !.y = c.y + 1],
     [c EXCEPT !.z = Dec(c.z)], [c EXCEPT !.z = c.z + 1]}

\* Lines 110-149: the call, up to the loop.
FindAirPocketsEnter ==
    /\ pc18 = "findAirPockets"
    /\ negative' = Negative(cubes)
    /\ unvisitedNegativeCubes' =
           xyPlaneSeeds(cubes) \cup xzPlaneSeeds(cubes) \cup yzPlaneSeeds(cubes)
    /\ pc18' = "fill"
    /\ UNCHANGED <<day16Vars, laterDays, day15Vars, day14Vars, cubes>>

\* Lines 153-166: one iteration of the loop.
FindAirPocketsIteration ==
    /\ pc18 = "fill"
    /\ unvisitedNegativeCubes # {}
    /\ LET cube == CHOOSE c \in unvisitedNegativeCubes :
                       \A d \in unvisitedNegativeCubes \ {c} : CubeLess(c, d)
           erased == negative \ {cube}
       IN  /\ negative' = erased
           /\ unvisitedNegativeCubes' =
                  (unvisitedNegativeCubes \ {cube}) \cup (Neighbours(cube) \cap erased)
    /\ UNCHANGED <<day16Vars, laterDays, day15Vars, day14Vars, cubes, pc18>>

\* Lines 153, 167: the loop ends and negative is returned.
FindAirPocketsReturn ==
    /\ pc18 = "fill"
    /\ unvisitedNegativeCubes = {}
    /\ pc18' = "returned"
    /\ UNCHANGED <<day16Vars, laterDays, day15Vars, day14Vars, cubes, negative, unvisitedNegativeCubes>>

\* Line 177: findAirPockets on every droplet of Droplets.
Day18Init ==
    /\ cubes \in Droplets
    /\ negative = {}
    /\ unvisitedNegativeCubes = {}
    /\ pc18 = "findAirPockets"
    /\ Day16Off
    /\ LaterDaysOff
    /\ Day15Off
    /\ Day14Off

Day18Next ==
    \/ FindAirPocketsEnter
    \/ FindAirPocketsIteration
    \/ FindAirPocketsReturn

Day18Spec == Day18Init /\ [][Day18Next]_vars

\* The cells of the droplet's bounding box that hold no cube.
EmptyCells(cs) == Negative(cs)

\* c lies on one of the six faces of the bounding box of cs.
OnFace(cs, c) ==
    LET lo == BoxMin(cs)
        hi == BoxMax(cs)
    IN  \/ c.x = lo.x \/ c.x = hi.x
        \/ c.y = lo.y \/ c.y = hi.y
        \/ c.z = lo.z \/ c.z = hi.z

\* Two cells sharing a face.
Adjacent(a, b) ==
    LET Abs(n) == IF n < 0 THEN -n ELSE n
    IN  Abs(a.x - b.x) + Abs(a.y - b.y) + Abs(a.z - b.z) = 1

\* The cells of E joined to S by a chain of adjacent cells of E.
RECURSIVE Joined(_, _)
Joined(S, E) ==
    LET more == {e \in E \ S : \E s \in S : Adjacent(s, e)}
    IN  IF more = {} THEN S ELSE Joined(S \cup more, E)

\* The empty cells that reach no face of the bounding box through empty
\* cells: the enclosed air pockets.
Enclosed(cs) ==
    LET E == EmptyCells(cs)
    IN  E \ Joined({e \in E : OnFace(cs, e)}, E)

\* C17: findAirPockets returns exactly the empty cells of the bounding box
\* that cannot reach a face of the box through 6-connected empty cells,
\* the fill having started from every empty cell on any of the six faces.
Orig_C17 ==
    /\ (pc18 = "fill" /\ negative = Negative(cubes)) =>
           \A c \in negative : OnFace(cubes, c) => c \in unvisitedNegativeCubes
    /\ pc18 = "returned" => negative = Enclosed(cubes)

----------------------------------------------------------------------------
(***************************************************************************)
(* The sensor program (day 15): SensorRange::fromSensor, reduce and        *)
(* getRanges, src/unnamed/part_000 84-141.  A sensor is [location,         *)
(* strength] with location a pair [first, second]; its beacon is not read  *)
(* by getRanges.  A std::optional is a sequence of length 0 or 1.          *)
(***************************************************************************)

\* Bounds: up to two sensors at SensorXs x SensorYs with strength up to
\* MaxStrength, the rows Rows, and the windows minX <= maxX over WindowXs.
MaxStrength == 2
SensorXs == 0..3
SensorYs == 0..2
SensorCounts == 0..2
Rows == 0..1
WindowXs == 1..2

Abs(n) == IF n < 0 THEN -n ELSE n

\* A variant of fromSensor: a sensor reaching the row with nothing to spare
\* returns no range.
fromSensorStrict(sensor, y) ==
    LET dy == Abs(sensor.location.second - y)
    IN  IF dy >= sensor.strength THEN <<>>
        ELSE LET reducedStrength == sensor.strength - dy
             IN  <<[start |-> sensor.location.first - reducedStrength,
                    end |-> sensor.location.first + reducedStrength]>>

\* Lines 92-99.
fromSensor(sensor, y) ==
    LET dy == Abs(sensor.location.second - y)
    IN  IF dy > sensor.strength THEN <<>>
        ELSE LET reducedStrength == sensor.strength - dy
             IN  <<[start |-> sensor.location.first - reducedStrength,
                    end |-> sensor.location.first + reducedStrength]>>

\* Lines 101-103.
overlaps(this, other) ==
    \/ this.start <= other.end /\ other.start <= this.end
    \/ this.end + 1 = other.start

\* Lines 105-107.
merge(this, other) ==
    [start |-> IF other.start < this.start THEN other.start ELSE this.start,
     end |-> IF this.end < other.end THEN other.end ELSE this.end]

\* std::clamp(v, lo, hi), lines 112-113.
clamp(v, lo, hi) == IF v < lo THEN lo ELSE IF hi < v THEN hi ELSE v

\* Lines 111-114.
Clamped(rs, lo, hi) ==
    [i \in 1..Len(rs) |-> [start |-> clamp(rs[i].start, lo, hi),
                           end |-> clamp(rs[i].end, lo, hi)]]

\* The comparison of lines 116-121.
RangeLess(a, b) == IF a.start = b.start THEN a.end < b.end ELSE a.start < b.start

\* Lines 116-121: std::sort with that comparison.  Two ranges neither of
\* which is less than the other are equal, so the result is unique.
RECURSIVE Sorted(_)
Sorted(rs) ==
    IF rs = <<>> THEN <<>>
    ELSE LET first == CHOOSE i \in 1..Len(rs) :
                          \A j \in 1..Len(rs) : ~RangeLess(rs[j], rs[i])
             rest == [j \in 1..(Len(rs) - 1) |-> IF j < first THEN rs[j] ELSE rs[j + 1]]
         IN  <<rs[first]>> \o Sorted(rest)

\* Lines 123-128 from index i on (i counts from 1 here), for a vector that
\* is not empty.
RECURSIVE Merged(_, _)
Merged(rs, i) ==
    IF i >= Len(rs) THEN rs
    ELSE IF overlaps(rs[i], rs[i + 1])
         THEN Merged([j \in 1..(Len(rs) - 1) |->
                         IF j < i THEN rs[j]
                         ELSE IF j = i THEN merge(rs[i], rs[i + 1])
                         ELSE rs[j + 1]], i)
         ELSE Merged(rs, i + 1)

\* Lines 110-129, for a vector that is not empty.
reduce(rs, lo, hi) == Merged(Sorted(Clamped(rs, lo, hi)), 1)

\* Lines 123-124 on an empty vector: ranges.size() - 1 wraps to SIZE_MAX,
\* the loop is entered and ranges[0] and ranges[1] are read.
ReadsOutside(rs) == Len(rs) = 0

\* What that undefined behaviour may leave: the program killed, or the
\* loop left with the vector empty or holding what was read.
UndefinedRanges == {<<>>, <<[start |-> 0, end |-> 0]>>}

\* Lines 133-138: one iteration of getRanges' loop.
GetRangesIteration ==
    /\ pc15 = "getRanges"
    /\ Len(range) < Len(sensors)
    /\ LET sensor == sensors[Len(range) + 1]
           returned == fromSensor(sensor, row)
       IN  /\ range' = Append(range, returned)
           /\ ranges' = IF returned # <<>> THEN Append(ranges, returned[1]) ELSE ranges
    /\ UNCHANGED <<day16Vars, laterDays, day18Vars, day14Vars, sensors, row, minX, maxX, outside, pc15>>

\* Lines 139-140: the call of reduce and the return.
GetRangesReduce ==
    /\ pc15 = "getRanges"
    /\ Len(range) = Len(sensors)
    /\ IF ReadsOutside(ranges)
       THEN /\ outside' = TRUE
            /\ pc15' \in {"killed", "returned"}
            /\ ranges' \in UndefinedRanges
       ELSE /\ outside' = FALSE
            /\ pc15' = "returned"
            /\ ranges' = reduce(ranges, minX, maxX)
    /\ UNCHANGED <<day16Vars, laterDays, day18Vars, day14Vars, sensors, row, minX, maxX, range>>

Sensors == [location : [first : SensorXs, second : SensorYs], strength : 0..MaxStrength]

\* Lines 131-132: getRanges entered, on every list of sensors and window.
Day15Init ==
    /\ sensors \in UNION {[1..n -> Sensors] : n \in SensorCounts}
    /\ row \in Rows
    /\ minX \in WindowXs
    /\ maxX \in WindowXs
    /\ minX <= maxX
    /\ range = <<>>
    /\ ranges = <<>>
    /\ outside = FALSE
    /\ pc15 = "getRanges"
    /\ Day16Off
    /\ LaterDaysOff
    /\ Day18Off
    /\ Day14Off

Day15Next ==
    \/ GetRangesIteration
    \/ GetRangesReduce

Day15Spec == Day15Init /\ [][Day15Next]_vars

\* The x values the properties range over: every x a range of the model
\* can hold, and one more on each side.
Xs == (0 - MaxStrength - 1)..(3 + MaxStrength + 1)

\* x satisfies the constraint |x - X| <= d - |y - Y| of a sensor.
Satisfies(sensor, y, x) ==
    Abs(x - sensor.location.first) <= sensor.strength - Abs(y - sensor.location.second)

\* x lies in some range of rs.
Covered(rs, x) == \E i \in 1..Len(rs) : rs[i].start <= x /\ x <= rs[i].end

\* The ranges pushed by getRanges' loop: reduce's input.
RECURSIVE Pushed(_)
Pushed(opts) ==
    IF opts = <<>> THEN <<>> ELSE Head(opts) \o Pushed(Tail(opts))

\* C18: the range fromSensor returns holds x iff |x - X| <= d - |y - Y|,
\* and none is returned exactly when no x satisfies the constraint, which
\* is when |y - Y| > d.
Thm_C18 ==
    \A k \in 1..Len(range) :
        LET sensor == sensors[k]
            returned == range[k]
        IN  /\ returned = <<>> <=> ~\E x \in Xs : Satisfies(sensor, row, x)
            /\ returned = <<>> <=> Abs(row - sensor.location.second) > sensor.strength
            /\ returned # <<>> =>
                   \A x \in Xs :
                       (returned[1].start <= x /\ x <= returned[1].end)
                           <=> Satisfies(sensor, row, x)

\* fromSensor has returned no range for one sensor and, for a sensor off
\* the row, a range narrower than its strength.
Wit_C18 ==
    /\ Len(range) = 2
    /\ range[1] = <<>>
    /\ range[2] # <<>>
    /\ sensors[2].location.second # row
    /\ range[2][1].start < range[2][1].end

\* C19: on every list of ranges, the empty one included, reduce finishes
\* without reading outside the vector, and an x of [minX, maxX] lies in an
\* output range iff it lay in an input range.
Orig_C19 ==
    pc15 \in {"returned", "killed"} =>
        /\ pc15 = "returned"
        /\ ~outside
        /\ \A x \in minX..maxX : Covered(ranges, x) <=> Covered(Pushed(range), x)

----------------------------------------------------------------------------
(***************************************************************************)
(* The sand program (day 14): Grain::findRestingPoint and main's loop,     *)
(* src/day14.cpp 85-146.  A Point is <<x, y>>.                             *)
(***************************************************************************)

\* Bounds: the rocks are any cells of RockXs x 0..MaxDepth.
MaxDepth == 2
RockXs == 499..501

\* Lines 87-88: where a Grain starts.
Source == <<500, 0>>

\* Lines 121-123: floor, the fold of std::max over the rocks' y from 0.
Floor(spots) ==
    LET ys == {p[2] : p \in spots} \cup {0}
    IN  CHOOSE m \in ys : \A n \in ys : m >= n

\* A variant of Step: the grain slides down and left without testing
\* that cell.
StepLeftUntested(spots, p) ==
    LET x == p[1]
        y == p[2]
    IN  IF <<x, y + 1>> \notin spots THEN <<x, y + 1>>
        ELSE <<x - 1, y + 1>>

\* Lines 96-106: one pass through the loop body; the grain's position
\* after it, unchanged when line 105 returns.
Step(spots, p) ==
    LET x == p[1]
        y == p[2]
    IN  IF <<x, y + 1>> \notin spots THEN <<x, y + 1>>
        ELSE IF <<x - 1, y + 1>> \notin spots THEN <<x - 1, y + 1>>
        ELSE IF <<x + 1, y + 1>> \notin spots THEN <<x + 1, y + 1>>
        ELSE p

\* Lines 93-108, for a grain at p.
RECURSIVE findRestingPoint(_, _, _)
findRestingPoint(spots, fl, p) ==
    IF p[2] > fl THEN p
    ELSE LET q == Step(spots, p)
         IN  IF q = p THEN p ELSE findRestingPoint(spots, fl, q)

\* Lines 129-144: one iteration of main's loop.
SandIteration ==
    /\ pc14 = "loop"
    /\ LET rest == findRestingPoint(occupiedSpots, floor, Source)
       IN  /\ grain' = rest
           /\ floorHit' = (floorHit \/ rest[2] >= floor)
           /\ sandPart1' = IF ~floorHit /\ rest[2] < floor THEN sandPart1 + 1 ELSE sandPart1
           /\ occupiedSpots' = occupiedSpots \cup {rest}
           /\ sandPart2' = sandPart2 + 1
           /\ pc14' = IF rest = Source THEN "print" ELSE "loop"
    /\ UNCHANGED <<day16Vars, laterDays, day18Vars, day15Vars, rocks, floor>>

\* Lines 145-147: the counts are printed.
SandPrint ==
    /\ pc14 = "print"
    /\ pc14' = "printed"
    /\ UNCHANGED <<day16Vars, laterDays, day18Vars, day15Vars, rocks, occupiedSpots, floor,
                   sandPart1, sandPart2, floorHit, grain>>

\* Lines 119-127: main before the loop, on every set of rocks.
Day14Init ==
    /\ rocks \in SUBSET (RockXs \X (0..MaxDepth))
    /\ occupiedSpots = rocks
    /\ floor = Floor(rocks)
    /\ sandPart1 = 0
    /\ sandPart2 = 0
    /\ floorHit = FALSE
    /\ grain = Source
    /\ pc14 = "loop"
    /\ Day16Off
    /\ LaterDaysOff
    /\ Day18Off
    /\ Day15Off

Day14Next ==
    \/ SandIteration
    \/ SandPrint

Day14Spec == Day14Init /\ [][Day14Next]_vars

\* The cells holding sand.
SandCells == occupiedSpots \ rocks

\* C20: when the source is not rock, every grain the loop drops comes to
\* rest on a cell that was not occupied, at y <= floor + 1, so
\* occupiedSpots grows by exactly one cell per grain; and part2 is the
\* number of sand cells when the loop stops with a grain at the source.
Thm_C20 ==
    /\ [][(pc14 = "loop" /\ Source \notin rocks) =>
              /\ grain' \notin occupiedSpots
              /\ grain'[2] <= floor + 1
              /\ occupiedSpots' = occupiedSpots \cup {grain'}
              /\ Cardinality(occupiedSpots') = Cardinality(occupiedSpots) + 1]_vars
    /\ []((pc14 = "print" /\ Source \notin rocks) =>
              /\ grain = Source
              /\ sandPart2 = Cardinality(SandCells))

\* The loop has stopped with a grain at the source, after grains came to
\* rest below the floor, on the floor's row and against rock.
Wit_C20 ==
    /\ pc14 = "print"
    /\ Source \notin rocks
    /\ grain = Source
    /\ rocks # {}
    /\ floor > 0
    /\ \E p \in SandCells : p[2] = floor + 1
    /\ \E p \in SandCells : p[2] < floor
    /\ sandPart1 > 0
    /\ sandPart2 > sandPart1

----------------------------------------------------------------------------
(***************************************************************************)
(* The monkey program (day 11): Monkey::runTurn and monkeyBusiness,        *)
(* src/day11.cpp 46-109 and 199-213.  monkeys is a function from the       *)
(* indices 0..n-1, as in the code.  A Number is a uint64_t; TLC cannot     *)
(* hold 2^64, so the arithmetic wraps at NumberRange instead: the wrapped  *)
(* values differ from the code's, the number of items moved does not       *)
(* depend on them.                                                         *)
(***************************************************************************)

\* Bounds: two monkeys, each starting with up to MaxItems items.
MaxItems == 1
MonkeyIndices == 0..1
ItemValues == {0, 4}
Divisors == {0, 2}
Iterations == {1, 2}

NumberRange == 32768

\* old * old, old + 3, old - 3 and old / old: lhs or rhs 0 stands for old
\* (lines 143-150).
Operations ==
    {[operation |-> "Multiply", lhs |-> 0, rhs |-> 0],
     [operation |-> "Add", lhs |-> 0, rhs |-> 3],
     [operation |-> "Subtract", lhs |-> 0, rhs |-> 3],
     [operation |-> "Divide", lhs |-> 0, rhs |-> 0]}

\* Lines 56-57: the operands of evaluate.
Operands(op, old) ==
    [l |-> IF op.lhs = 0 THEN old ELSE op.lhs,
     r |-> IF op.rhs = 0 THEN old ELSE op.rhs]

\* l / r and l % r on a build whose divide does not trap: division by zero
\* is undefined, and where it does not kill the program the quotient is 0
\* and the remainder is l.
Quotient(l, r) == IF r = 0 THEN 0 ELSE l \div r
Remainder(l, r) == IF r = 0 THEN l ELSE l % r

\* Lines 55-66.
evaluate(op, old) ==
    LET l == Operands(op, old).l
        r == Operands(op, old).r
    IN  CASE op.operation = "Add" -> (l + r) % NumberRange
          [] op.operation = "Subtract" -> (l - r) % NumberRange
          [] op.operation = "Multiply" -> (l * r) % NumberRange
          [] op.operation = "Divide" -> Quotient(l, r)

\* Lines 86-92: the lambda of std::transform.
Mishandle(monkey, mod, relax, worryLevel) ==
    LET newWorryLevel == Remainder(evaluate(monkey.operation, worryLevel), mod)
    IN  IF relax THEN newWorryLevel \div 3 ELSE newWorryLevel

\* Lines 63, 87, 94: the turn of monkey divides by zero.
DividesByZero(monkey, mod) ==
    /\ monkey.items # <<>>
    /\ \/ mod = 0
       \/ monkey.divisor = 0
       \/ \E i \in 1..Len(monkey.items) :
              /\ monkey.operation.operation = "Divide"
              /\ Operands(monkey.operation, monkey.items[i]).r = 0

\* Lines 82-105: monkeys after the two loops that push the items.  The
\* order std::partition leaves inside each part is unspecified; the
\* items' own order is kept here.
Thrown(ms, k, mod, relax) ==
    LET monkey == ms[k]
        mishandledItems == [i \in 1..Len(monkey.items) |->
                               Mishandle(monkey, mod, relax, monkey.items[i])]
        Test(worryLevel) == Remainder(worryLevel, monkey.divisor) = 0
        Fails(worryLevel) == ~Test(worryLevel)
        trueItems == SelectSeq(mishandledItems, Test)
        falseItems == SelectSeq(mishandledItems, Fails)
        afterTrue == [ms EXCEPT ![monkey.trueTarget].items = @ \o trueItems]
    IN  [afterTrue EXCEPT ![monkey.falseTarget].items = @ \o falseItems]

\* Lines 81-108: monkeys after monkeys[k].runTurn(monkeys, mod, relax).
runTurn(ms, k, mod, relax) ==
    LET thrown == Thrown(ms, k, mod, relax)
    IN  [thrown EXCEPT ![k].itemsHandled = @ + Len(thrown[k].items),
                       ![k].items = <<>>]

\* Lines 200-202: modulo, the product of the divisors.
RECURSIVE Product(_, _)
Product(ms, n) ==
    IF n = 0 THEN 1 ELSE (Product(ms, n - 1) * ms[n - 1].divisor) % NumberRange

\* Lines 204-205: the next call of runTurn.
RunTurn ==
    /\ pc11 = "rounds"
    /\ round < iterations
    /\ before' = [monkeys |-> monkeys, monkey |-> turn]
    /\ \/ /\ DividesByZero(monkeys[turn], modulo)
          /\ pc11' = "killed"
          /\ UNCHANGED <<monkeys, round, turn>>
       \/ /\ monkeys' = runTurn(monkeys, turn, modulo, relaxing)
          /\ IF turn + 1 \in DOMAIN monkeys
             THEN turn' = turn + 1 /\ round' = round
             ELSE turn' = 0 /\ round' = round + 1
          /\ pc11' = pc11
    /\ UNCHANGED <<day16Vars, day18Vars, day15Vars, day14Vars, day13Vars,
                   modulo, relaxing, iterations>>

\* Lines 203, 209-212: the rounds are over, monkeys is sorted by
\* itemsHandled, largest first (the product returned is not kept).
MonkeyBusinessReturn ==
    /\ pc11 = "rounds"
    /\ round = iterations
    /\ \E order \in [DOMAIN monkeys -> DOMAIN monkeys] :
        /\ \A i, j \in DOMAIN monkeys : i # j => order[i] # order[j]
        /\ \A i, j \in DOMAIN monkeys :
               i < j => monkeys[order[i]].itemsHandled >= monkeys[order[j]].itemsHandled
        /\ monkeys' = [i \in DOMAIN monkeys |-> monkeys[order[i]]]
    /\ pc11' = "returned"
    /\ UNCHANGED <<day16Vars, day18Vars, day15Vars, day14Vars, day13Vars,
                   modulo, relaxing, iterations, round, turn, before>>

Monkeys ==
    [items : UNION {[1..n -> ItemValues] : n \in 0..MaxItems},
     operation : Operations,
     divisor : Divisors,
     trueTarget : MonkeyIndices,
     falseTarget : MonkeyIndices,
     itemsHandled : {0}]

\* Lines 199-202: monkeyBusiness entered, on every pair of monkeys.
Day11Init ==
    /\ monkeys \in [MonkeyIndices -> Monkeys]
    /\ modulo = Product(monkeys, Cardinality(MonkeyIndices))
    /\ relaxing \in BOOLEAN
    /\ iterations \in Iterations
    /\ round = 0
    /\ turn = 0
    /\ before = [monkeys |-> <<>>, monkey |-> -1]
    /\ pc11 = "rounds"
    /\ Day16Off
    /\ Day18Off
    /\ Day15Off
    /\ Day14Off
    /\ Day13Off

Day11Next ==
    \/ RunTurn
    \/ MonkeyBusinessReturn

Day11Spec == Day11Init /\ [][Day11Next]_vars

\* The number of items all the monkeys of ms hold.
RECURSIVE ItemsHeld(_, _)
ItemsHeld(ms, n) ==
    IF n = 0 THEN 0 ELSE ItemsHeld(ms, n - 1) + Len(ms[n - 1].items)

\* The monkey of the last call throws to two other monkeys of the vector.
ThrowsToOthers ==
    LET monkey == before.monkeys[before.monkey]
        others == DOMAIN before.monkeys \ {before.monkey}
    IN  monkey.trueTarget \in others /\ monkey.falseTarget \in others

\* What C21 says of the last call of runTurn.
TurnKeepsCount ==
    LET k == before.monkey
        n == Cardinality(DOMAIN monkeys)
    IN  /\ pc11 # "killed"
        /\ monkeys[k].items = <<>>
        /\ ItemsHeld(monkeys, n) = ItemsHeld(before.monkeys, n)
        /\ monkeys[k].itemsHandled =
               before.monkeys[k].itemsHandled + Len(before.monkeys[k].items)

\* Every call of runTurn that returns, for a monkey that throws to two
\* other monkeys, keeps the count: what remains true of runTurn when the
\* calls that divide by zero are set aside.
ReturnedTurnKeepsCount ==
    (pc11 = "rounds" /\ before.monkey >= 0 /\ ThrowsToOthers) => TurnKeepsCount

\* C21: for a monkey whose trueTarget and falseTarget are valid indices of
\* other monkeys, one call of runTurn leaves its items empty, keeps the
\* number of items all monkeys hold, and adds to itemsHandled the number of
\* items it held.
Orig_C21 ==
    (pc11 \in {"rounds", "killed"} /\ before.monkey >= 0 /\ ThrowsToOthers)
        => TurnKeepsCount

----------------------------------------------------------------------------
(***************************************************************************)
(* The packet program (day 13): the two operator<=> of src/day13.cpp       *)
(* 41-67.  A boost::json::value is [number |-> n] or [array |-> s], s the  *)
(* sequence of its elements; a std::strong_ordering is "less", "equal" or  *)
(* "greater".                                                              *)
(***************************************************************************)

\* Bounds: the integers 1..MaxInt, and lists of up to two elements nested
\* twice.
MaxInt == 2
Lengths == 0..2

is_number(v) == "number" \in DOMAIN v

ArraysOver(S) == {[array |-> s] : s \in UNION {[1..n -> S] : n \in Lengths}}

PacketIntegers == {[number |-> n] : n \in 1..MaxInt}

Packets ==
    LET flat == ArraysOver(PacketIntegers)
    IN  PacketIntegers \cup ArraysOver(PacketIntegers \cup flat)

\* A variant of ThreeWay: never equal.
ThreeWayNeverEqual(m, n) == IF m <= n THEN "less" ELSE "greater"

\* m <=> n on integers (line 52) and on sizes (line 47).
ThreeWay(m, n) == IF m < n THEN "less" ELSE IF m > n THEN "greater" ELSE "equal"

RECURSIVE CompareArrays(_, _, _)
RECURSIVE CompareValues(_, _)

\* Lines 41-48, from index i on (i counts from 1 here).
CompareArrays(first, second, i) ==
    LET least == IF Len(second) < Len(first) THEN Len(second) ELSE Len(first)
    IN  IF i > least THEN ThreeWay(Len(first), Len(second))
        ELSE LET elements == CompareValues(first[i], second[i])
             IN  IF elements # "equal" THEN elements
                 ELSE CompareArrays(first, second, i + 1)

\* Lines 50-67.
CompareValues(first, second) ==
    IF is_number(first) /\ is_number(second)
    THEN ThreeWay(first.number, second.number)
    ELSE IF is_number(first) THEN CompareArrays(<<first>>, second.array, 1)
    ELSE IF is_number(second) THEN CompareArrays(first.array, <<second>>, 1)
    ELSE CompareArrays(first.array, second.array, 1)

\* Line 103: std::sort's comparison takes *a <=> *b.
Compare ==
    /\ pc13 = "compare"
    /\ result' = CompareValues(packetFirst, packetSecond)
    /\ pc13' = "swapped"
    /\ UNCHANGED <<day16Vars, day18Vars, day15Vars, day14Vars, day11Vars,
                   packetFirst, packetSecond, reversed>>

\* Line 103 with the two packets the other way round.
CompareSwapped ==
    /\ pc13 = "swapped"
    /\ reversed' = CompareValues(packetSecond, packetFirst)
    /\ pc13' = "compared"
    /\ UNCHANGED <<day16Vars, day18Vars, day15Vars, day14Vars, day11Vars,
                   packetFirst, packetSecond, result>>

\* Lines 94-102: two packets std::sort compares, any two of Packets.
Day13Init ==
    /\ packetFirst \in Packets
    /\ packetSecond \in Packets
    /\ result = "none"
    /\ reversed = "none"
    /\ pc13 = "compare"
    /\ Day16Off
    /\ Day18Off
    /\ Day15Off
    /\ Day14Off
    /\ Day11Off

Day13Next ==
    \/ Compare
    \/ CompareSwapped

Day13Spec == Day13Init /\ [][Day13Next]_vars

\* The ordering with its operands exchanged.
Reverse(ordering) ==
    CASE ordering = "less" -> "greater"
      [] ordering = "greater" -> "less"
      [] ordering = "equal" -> "equal"

\* second is the list holding first alone.
ListOf(first, second) ==
    /\ ~is_number(second)
    /\ Len(second.array) = 1
    /\ is_number(second.array[1]) = is_number(first)
    /\ second.array[1] = first

\* C22: a <=> b is the reverse of b <=> a, an integer n compares equal to
\* the list [n], and so the < of std::sort (a <=> b is less) is
\* irreflexive and asymmetric.
Thm_C22 ==
    pc13 = "compared" =>
        /\ result \in {"less", "equal", "greater"}
        /\ result = Reverse(reversed)
        /\ (is_number(packetFirst) /\ ListOf(packetFirst, packetSecond)) => result = "equal"
        /\ (is_number(packetSecond) /\ ListOf(packetSecond, packetFirst)) => result = "equal"
        /\ (is_number(packetFirst) = is_number(packetSecond) /\ packetFirst = packetSecond)
               => result # "less"
        /\ ~(result = "less" /\ reversed = "less")

\* An integer has been compared, both ways, with a list whose first
\* element is itself a list, and is less.
Wit_C22 ==
    /\ pc13 = "compared"
    /\ is_number(packetFirst)
    /\ ~is_number(packetSecond)
    /\ Len(packetSecond.array) = 2
    /\ ~is_number(packetSecond.array[1])
    /\ result = "less"
    /\ reversed = "greater"

====
